---------------------------- MODULE Spec2Model ----------------------------
(***************************************************************************)
(* Model of remote_provisioners/kernel-launchers/shared/scripts/           *)
(* server_listener.py: port selection, the descriptor push and the control *)
(* listener's accept loop.                                                 *)
(*                                                                         *)
(* Four specifications share the actions below:                            *)
(*   SpecPorts    _select_ports(count, lower_port, upper_port) on its own  *)
(*   SpecSetup    setup_server_listener up to the listener's accept loop   *)
(*   SpecPush     server_listener up to its first accept, any address      *)
(*   SpecListener server_listener from the end of return_connection_info   *)
(***************************************************************************)
EXTENDS Integers, Sequences, FiniteSets, TLC

(* ------------------------------ bounds --------------------------------- *)
\* Ports of the host are 1..NumPorts; port 0 asks the OS for any free port.
NumPorts == 5
\* Restricted ranges and ports bound by other processes lie in 1..RangeMax (SpecPorts).
RangeMax == 3
\* Largest count handed to _select_ports in SpecPorts.
MaxCount == 3
\* Most members a request object carries.
MaxMembers == 2
\* Connections the controller opens in SpecListener.
MaxConns == 3
\* Longest controller address, in characters (SpecPush).
MaxAddrLen == 3

\* plaintexts handed to _encrypt are at most this long
MaxPlainLen == 17
\* key pairs a controller may hold
NumKeyPairs == 2
\* outcomes of get_random_bytes
NumAesKeys == 2

(* ------------------------- program constants --------------------------- *)
\* `pad(connection_info_bytes, 16)`: the cipher's block length
BlockSize == 16
\* `get_random_bytes(16)`
AesKeyLen == 16
\* values of one byte
ByteValues == 256
max_port_range_retries == 5
MsgPortCount == 5
LAUNCHER_VERSION == 1
SIGINT == 2
SIGUSR2 == 12

Ports == 1..NumPorts

VARIABLES
    \* arguments and environment, fixed by Init
    count,          \* _select_ports: number of ports asked for
    lower_port,
    upper_port,
    elsewhere,      \* ports bound by other processes
    \* _select_ports / _select_socket
    pc,             \* position of the caller's execution context
    ports,          \* list `ports` of _select_ports
    sockets,        \* list `sockets` of _select_ports (by port)
    probes,         \* ports held by probing sockets that are still open
    retries,        \* `retries` of the running _select_socket call
    \* setup_server_listener
    file,           \* the connection file: {} while absent, else {descriptor}
    unit,           \* background unit: "none", "thread" or "process"
    \* server_listener arguments
    response_addr,  \* sequence of characters
    cluster_type,
    parent_alive,   \* whether parent_pid names a live process
    \* return_connection_info
    lpc,            \* position of the background unit
    cf_json,        \* {} until the file is read, else {descriptor}
    comm_port,      \* port of comm_sock, 0 while there is none
    comm_state,     \* "none", "listening" or "closed"
    push,           \* the outbound socket s: "none", "connected" or "closed"
    connects,       \* number of s.connect calls
    sends,          \* number of s.send calls
    wire,           \* what the controller has received, in order
    failure,        \* exception that ended the background unit, "" if none
    \* get_server_request / server_listener loop
    budget,         \* connections the controller may still open
    conn,           \* accepted connection: "none", "open" or "closed"
    incoming,       \* tokens the peer has written and the listener not yet read
    data,           \* `data`: tokens received so far
    request,        \* `request`: {} for None, else {dict}
    shutdown,       \* `shutdown` of server_listener
    kills,          \* os.kill calls made for the current request, <<pid, signum>>
    failedKills,    \* os.kill calls that raised since the unit started
    logged,         \* "got request" logged for the current request
    nconn,          \* connections accepted so far
    openConns,      \* accepted connections not closed yet
    \* _encrypt, called on its own (SpecCodec)
    cpc,            \* "call", "sent" or "opened"
    plaintext,      \* connection_info_bytes
    keypair,        \* the controller's key pair; its public half is passed in
    aes_key,        \* the key get_random_bytes returned in the call
    envelope,       \* bytes _encrypt returned
    recovered       \* bytes the controller got out of the envelope

portVars == <<count, lower_port, upper_port, elsewhere, pc, ports, sockets, probes, retries>>
setupVars == <<file, unit>>
argVars == <<response_addr, cluster_type, parent_alive>>
rciVars == <<cf_json, comm_port, comm_state, push, connects, sends, wire>>
loopVars == <<budget, conn, incoming, data, request, shutdown, kills, failedKills, logged, nconn, openConns>>
codecVars == <<cpc, plaintext, keypair, aes_key, envelope, recovered>>
vars == <<portVars, setupVars, argVars, lpc, failure, rciVars, loopVars, codecVars>>

(* ----------------------------- port choice ----------------------------- *)
\* _get_candidate_port: 0 when upper_port - lower_port = 0, else random.randint.
_get_candidate_port(lower, upper) ==
    IF upper - lower = 0 THEN {0} ELSE lower..upper

\* sock.bind(("0.0.0.0", candidate)): the ports the bind can end up on; {} when it raises.
\* Port 0 lets the OS choose among the ports nobody holds.
Bind(candidate, inUse) ==
    IF candidate = 0 THEN Ports \ inUse
    ELSE IF candidate \in inUse THEN {} ELSE {candidate}

\* `if retries > max_port_range_retries: raise RuntimeError`
RetriesExhausted(r) == r > max_port_range_retries

\* Ports no new socket of this process can bind.
InUse == elsewhere \cup probes \cup (IF comm_state = "listening" THEN {comm_port} ELSE {})

(* ---------------------------- _select_ports ---------------------------- *)
\* One pass of _select_socket's loop whose bind succeeds; the socket and its port
\* are appended to the lists of _select_ports.
SelectPortsBindOk ==
    /\ UNCHANGED codecVars
    /\ pc = "select_ports"
    /\ Len(ports) < count
    /\ \E c \in _get_candidate_port(lower_port, upper_port) :
         \E p \in Bind(c, InUse) :
            /\ ports' = Append(ports, p)
            /\ sockets' = Append(sockets, p)
            /\ probes' = probes \cup {p}
    /\ retries' = 0
    /\ UNCHANGED <<count, lower_port, upper_port, elsewhere, pc>>
    /\ UNCHANGED <<setupVars, argVars, lpc, failure, rciVars, loopVars>>

\* One pass whose bind raises: count it, and give up past max_port_range_retries.
SelectPortsBindFail ==
    /\ UNCHANGED codecVars
    /\ pc = "select_ports"
    /\ Len(ports) < count
    /\ \E c \in _get_candidate_port(lower_port, upper_port) : Bind(c, InUse) = {}
    /\ retries' = retries + 1
    /\ pc' = IF RetriesExhausted(retries + 1) THEN "raised" ELSE pc
    /\ UNCHANGED <<count, lower_port, upper_port, elsewhere, ports, sockets, probes>>
    /\ UNCHANGED <<setupVars, argVars, lpc, failure, rciVars, loopVars>>

\* `for sock in sockets: sock.close()` and `return ports`.
SelectPortsReturn ==
    /\ UNCHANGED codecVars
    /\ pc = "select_ports"
    /\ Len(ports) = count
    /\ probes' = probes \ {sockets[i] : i \in 1..Len(sockets)}
    /\ pc' = "ports_returned"
    /\ UNCHANGED <<count, lower_port, upper_port, elsewhere, ports, sockets, retries>>
    /\ UNCHANGED <<setupVars, argVars, lpc, failure, rciVars, loopVars>>

(* ------------------------ setup_server_listener ------------------------ *)
\* write_connection_file(fname, ip, key, shell_port=ports[0], ..., control_port=ports[4])
ConnectionFile(p, key) ==
    [ip |-> "0.0.0.0", key |-> key,
     shell_port |-> p[1], iopub_port |-> p[2], stdin_port |-> p[3],
     hb_port |-> p[4], control_port |-> p[5]]

\* `key = str(uuid.uuid4()).encode()` and write_connection_file, after _select_ports(5, ...).
WriteConnectionFile ==
    /\ UNCHANGED codecVars
    /\ pc = "ports_returned"
    /\ file' = {ConnectionFile(ports, "uuid4")}
    /\ pc' = "start"
    /\ UNCHANGED <<count, lower_port, upper_port, elsewhere, ports, sockets, probes, retries>>
    /\ UNCHANGED <<unit, argVars, lpc, failure, rciVars, loopVars>>

\* Thread(target=server_listener, ...).start() or Process(...).start(), by as_thread.
StartListener ==
    /\ UNCHANGED codecVars
    /\ pc = "start"
    /\ \E as_thread \in BOOLEAN : unit' = IF as_thread THEN "thread" ELSE "process"
    /\ lpc' = "rci"
    /\ pc' = "started"
    /\ UNCHANGED <<count, lower_port, upper_port, elsewhere, ports, sockets, probes, retries>>
    /\ UNCHANGED <<file, argVars, failure, rciVars, loopVars>>

\* `return` of setup_server_listener.
SetupReturn ==
    /\ UNCHANGED codecVars
    /\ pc = "started"
    /\ pc' = "returned"
    /\ UNCHANGED <<count, lower_port, upper_port, elsewhere, ports, sockets, probes, retries>>
    /\ UNCHANGED <<setupVars, argVars, lpc, failure, rciVars, loopVars>>

(* ------------------------ return_connection_info ----------------------- *)
\* The element of a one-element set.
The(S) == CHOOSE x \in S : TRUE

Digits == {"8"}

\* str.split(":")
RECURSIVE Split(_)
Split(s) ==
    IF \E i \in 1..Len(s) : s[i] = ":"
    THEN LET i == CHOOSE k \in 1..Len(s) : s[k] = ":" /\ \A j \in 1..(k - 1) : s[j] # ":"
         IN  <<SubSeq(s, 1, i - 1)>> \o Split(SubSeq(s, i + 1, Len(s)))
    ELSE <<s>>

\* int(text) returns rather than raising ValueError (addresses are made of the
\* characters of AddrChars: no sign, blank or underscore occurs).
IsInt(text) == Len(text) > 0 /\ \A i \in 1..Len(text) : text[i] \in Digits

PullMode_AtLeastTwoParts(addr) == Len(Split(addr)) < 2

\* The two early returns of return_connection_info ("Assuming 'pull' mode...").
PullMode(addr) ==
    LET response_parts == Split(addr)
    IN  Len(response_parts) # 2 \/ ~IsInt(response_parts[2])

\* os.getpid() inside the background unit: a thread shares the caller's pid.
Getpid(u) == IF u = "thread" THEN "pid_caller" ELSE "pid_child"

\* cf_json["pid"] = pid; cf_json["pgid"] = os.getpgid(pid)
WithProcessIds(d, u) == [pid |-> Getpid(u), pgid |-> "pgid_caller"] @@ d

WithCommPort_NoKernelId(d, port) == [comm_port |-> port] @@ d

WithCommPort_ControlPort(d, port) ==
    [comm_port |-> d.control_port, kernel_id |-> "kernel_id"] @@ d

\* cf_json["comm_port"] = comm_sock.getsockname()[1]; cf_json["kernel_id"] = kernel_id
WithCommPort(d, port) == [comm_port |-> port, kernel_id |-> "kernel_id"] @@ d

\* _encrypt(json.dumps(cf_json).encode(), public_key): the envelope only the holder
\* of the matching private key opens.
Envelope(d) == [version |-> LAUNCHER_VERSION, key |-> "public_key", conn_info |-> d]

\* Address check, then the file is loaded and the process ids are added.
RciParse ==
    /\ UNCHANGED codecVars
    /\ lpc = "rci"
    /\ IF PullMode(response_addr)
       THEN /\ lpc' = "loop"
            /\ UNCHANGED cf_json
       ELSE /\ lpc' = "prepare"
            /\ cf_json' = {WithProcessIds(d, unit) : d \in file}
    /\ UNCHANGED <<portVars, setupVars, argVars, failure, loopVars>>
    /\ UNCHANGED <<comm_port, comm_state, push, connects, sends, wire>>

AfterBind_Accept == "loop"

\* What return_connection_info does once prepare_comm_socket has returned: it
\* encrypts cf_json and connects to the controller before it returns comm_sock.
AfterBind == "connect"

\* prepare_comm_socket: a pass of _select_socket whose bind succeeds, then listen(1),
\* settimeout(5); the port and kernel_id go into cf_json.
CommBindOk ==
    /\ UNCHANGED codecVars
    /\ lpc = "prepare"
    /\ \E c \in _get_candidate_port(lower_port, upper_port) :
         \E p \in Bind(c, InUse) :
            /\ comm_port' = p
            /\ cf_json' = {WithCommPort(d, p) : d \in cf_json}
    /\ comm_state' = "listening"
    /\ retries' = 0
    /\ lpc' = AfterBind
    /\ UNCHANGED <<count, lower_port, upper_port, elsewhere, pc, ports, sockets, probes>>
    /\ UNCHANGED <<setupVars, argVars, failure, loopVars, push, connects, sends, wire>>

\* A pass whose bind raises; RuntimeError past max_port_range_retries.
CommBindFail ==
    /\ UNCHANGED codecVars
    /\ lpc = "prepare"
    /\ \E c \in _get_candidate_port(lower_port, upper_port) : Bind(c, InUse) = {}
    /\ retries' = retries + 1
    /\ IF RetriesExhausted(retries + 1)
       THEN lpc' = "crashed" /\ failure' = "RuntimeError"
       ELSE UNCHANGED <<lpc, failure>>
    /\ UNCHANGED <<count, lower_port, upper_port, elsewhere, pc, ports, sockets, probes>>
    /\ UNCHANGED <<setupVars, argVars, rciVars, loopVars>>

OnPushError_Retry == "connect"

\* What an exception raised inside `with socket.socket(...) as s:` leads to.
OnPushError == "crashed"

\* s.connect((response_ip, response_port)) succeeds.
PushConnectOk ==
    /\ UNCHANGED codecVars
    /\ lpc = "connect"
    /\ connects' = connects + 1
    /\ push' = "connected"
    /\ lpc' = "send"
    /\ UNCHANGED <<portVars, setupVars, argVars, failure, loopVars>>
    /\ UNCHANGED <<cf_json, comm_port, comm_state, sends, wire>>

\* s.connect raises: the with block closes s and the error leaves the function.
PushConnectFail ==
    /\ UNCHANGED codecVars
    /\ lpc = "connect"
    /\ connects' = connects + 1
    /\ push' = "closed"
    /\ lpc' = OnPushError
    /\ failure' = "connect"
    /\ UNCHANGED <<portVars, setupVars, argVars, loopVars>>
    /\ UNCHANGED <<cf_json, comm_port, comm_state, sends, wire>>

\* s.send(payload) returns (having written all of the payload or a prefix of it), the
\* with block closes s, and comm_sock is returned to server_listener.
PushSendOk ==
    /\ UNCHANGED codecVars
    /\ lpc = "send"
    /\ sends' = sends + 1
    /\ \E whole \in BOOLEAN :
         wire' = Append(wire, [payload |-> Envelope(The(cf_json)), whole |-> whole])
    /\ push' = "closed"
    /\ lpc' = "loop"
    /\ UNCHANGED <<portVars, setupVars, argVars, failure, loopVars>>
    /\ UNCHANGED <<cf_json, comm_port, comm_state, connects>>

\* s.send raises.
PushSendFail ==
    /\ UNCHANGED codecVars
    /\ lpc = "send"
    /\ sends' = sends + 1
    /\ push' = "closed"
    /\ lpc' = OnPushError
    /\ failure' = "send"
    /\ UNCHANGED <<portVars, setupVars, argVars, loopVars>>
    /\ UNCHANGED <<cf_json, comm_port, comm_state, connects, wire>>

(* ------------------------------- _encrypt ------------------------------ *)
\* Bytes are numbers in 0..255; base64 text is a sequence of the 64 digit
\* values, with 64 standing for the "=" filler.

\* base64.b64encode: three bytes become four digits, a tail of one or two bytes
\* is filled up with "=".
RECURSIVE B64Encode(_)
B64Encode(b) ==
    IF Len(b) = 0 THEN <<>>
    ELSE IF Len(b) = 1 THEN <<b[1] \div 4, (b[1] % 4) * 16, 64, 64>>
    ELSE IF Len(b) = 2 THEN
        <<b[1] \div 4, (b[1] % 4) * 16 + (b[2] \div 16), (b[2] % 16) * 4, 64>>
    ELSE <<b[1] \div 4, (b[1] % 4) * 16 + (b[2] \div 16),
           (b[2] % 16) * 4 + (b[3] \div 64), b[3] % 64>>
         \o B64Encode(SubSeq(b, 4, Len(b)))

\* base64.b64decode
RECURSIVE B64Decode(_)
B64Decode(c) ==
    IF Len(c) < 4 THEN <<>>
    ELSE LET b1 == c[1] * 4 + (c[2] \div 16)
             b2 == (c[2] % 16) * 16 + (c[3] \div 4)
             b3 == (c[3] % 4) * 64 + c[4]
             head == IF c[3] = 64 THEN <<b1>>
                     ELSE IF c[4] = 64 THEN <<b1, b2>>
                     ELSE <<b1, b2, b3>>
         IN  head \o B64Decode(SubSeq(c, 5, Len(c)))

Pad_NoFullBlock(bytes, block) ==
    LET n == (block - (Len(bytes) % block)) % block
    IN  bytes \o [i \in 1..n |-> n]

\* Crypto.Util.Padding.pad (pkcs7): between 1 and `block` bytes are added, each
\* holding the number of bytes added.
Pad(bytes, block) ==
    LET n == block - (Len(bytes) % block)
    IN  bytes \o [i \in 1..n |-> n]

\* AES in ECB mode stands as a keyed substitution applied block by block: byte
\* i of every block is shifted by byte i of the key.
EcbEncrypt(key, bytes) ==
    [i \in 1..Len(bytes) |-> (bytes[i] + key[((i - 1) % BlockSize) + 1]) % ByteValues]

\* RSA.importKey of the decoded public key: the key material is one byte here.
ImportKey(der) == der[1]

\* PKCS1_v1_5 encryption under a public key, as a substitution keyed by it.
RsaEncrypt(pub, bytes) ==
    [i \in 1..Len(bytes) |-> (bytes[i] + pub) % ByteValues]

\* json.dumps(payload).encode(): the version, the length of the key text, the
\* key text and the conn_info text, in that order.
PayloadDumps(payload) ==
    <<payload.version, Len(payload.key)>> \o payload.key \o payload.conn_info

_encrypt(connection_info_bytes, public_key, key) ==
    LET encrypted_connection_info ==
            EcbEncrypt(key, Pad(connection_info_bytes, BlockSize))
        b64_connection_info == B64Encode(encrypted_connection_info)
        imported_public_key == ImportKey(B64Decode(public_key))
        encrypted_key == B64Encode(RsaEncrypt(imported_public_key, key))
        payload == [version |-> LAUNCHER_VERSION,
                    key |-> encrypted_key,
                    conn_info |-> b64_connection_info]
    IN  B64Encode(PayloadDumps(payload))

\* The controller's side, which the repository does not hold: the inverse of
\* each step, with the private half of the key pair.
PayloadLoads(bytes) ==
    [version |-> bytes[1],
     key |-> SubSeq(bytes, 3, 2 + bytes[2]),
     conn_info |-> SubSeq(bytes, 3 + bytes[2], Len(bytes))]

RsaDecrypt(priv, bytes) ==
    [i \in 1..Len(bytes) |-> (bytes[i] + ByteValues - priv) % ByteValues]

EcbDecrypt(key, bytes) ==
    [i \in 1..Len(bytes) |->
        (bytes[i] + ByteValues - key[((i - 1) % BlockSize) + 1]) % ByteValues]

\* pkcs7 unpad: the last byte says how many bytes to drop.
Unpad(bytes) ==
    IF Len(bytes) = 0 THEN <<>>
    ELSE SubSeq(bytes, 1, Len(bytes) - bytes[Len(bytes)])

Decrypt(env, priv) ==
    LET payload == PayloadLoads(B64Decode(env))
        key == RsaDecrypt(priv, B64Decode(payload.key))
    IN  [version |-> payload.version,
         key |-> key,
         conn_info |-> Unpad(EcbDecrypt(key, B64Decode(payload.conn_info)))]

\* The public half of key pair k as the base64 text the controller passes in,
\* and its private half.
PublicKey(k) == B64Encode(<<k>>)
PrivateKey(k) == k

\* What get_random_bytes(16) can return.
AesKeys == {[i \in 1..AesKeyLen |-> s * i] : s \in 1..NumAesKeys}

\* One call of _encrypt; the key is drawn anew in every call.
EncryptCall ==
    /\ cpc \in {"call", "opened"}
    /\ \E k \in AesKeys :
        /\ aes_key' = k
        /\ envelope' = _encrypt(plaintext, PublicKey(keypair), k)
    /\ cpc' = "sent"
    /\ UNCHANGED <<plaintext, keypair, recovered>>
    /\ UNCHANGED <<portVars, setupVars, argVars, lpc, failure, rciVars, loopVars>>

\* The controller opens the envelope with its private key.
OpenEnvelope ==
    /\ cpc = "sent"
    /\ recovered' = Decrypt(envelope, PrivateKey(keypair))
    /\ cpc' = "opened"
    /\ UNCHANGED <<plaintext, keypair, aes_key, envelope>>
    /\ UNCHANGED <<portVars, setupVars, argVars, lpc, failure, rciVars, loopVars>>

(* -------------------------- get_server_request ------------------------ *)
\* A request body is a sequence of tokens: "{", members, "}".  What json.loads
\* makes of the tokens received is computed below.
Members == {"signum:0", "signum:2", "signum:15", "shutdown:true", "shutdown:false", "other:1"}

MemberField(m) ==
    IF m \in {"signum:0", "signum:2", "signum:15"} THEN "signum"
    ELSE IF m \in {"shutdown:true", "shutdown:false"} THEN "shutdown"
    ELSE "other"

MemberValue(m) ==
    CASE m = "signum:0" -> 0
      [] m = "signum:2" -> 2
      [] m = "signum:15" -> 15
      [] m = "shutdown:true" -> TRUE
      [] m = "shutdown:false" -> FALSE
      [] OTHER -> 1

\* json.loads(data) returns rather than raising JSONDecodeError.
WellFormed(text) ==
    /\ Len(text) >= 2
    /\ text[1] = "{"
    /\ text[Len(text)] = "}"
    /\ \A i \in 2..(Len(text) - 1) : text[i] \in Members

\* The dict json.loads returns: of a repeated name the last value stays.
JsonLoads(text) ==
    LET inner == 2..(Len(text) - 1)
        last(f) == CHOOSE i \in inner :
                      /\ MemberField(text[i]) = f
                      /\ \A j \in inner : j > i => MemberField(text[j]) # f
    IN  [f \in {MemberField(text[i]) : i \in inner} |-> MemberValue(text[last(f)])]

\* Bodies a controller connection may carry: nothing at all, a JSON object of up
\* to MaxMembers members, or such an object cut short by the peer closing.
MemberSeqs == UNION {[1..k -> Members] : k \in 0..MaxMembers}
Documents == {<<"{">> \o m \o <<"}">> : m \in MemberSeqs}
Truncated == {SubSeq(d, 1, Len(d) - 1) : d \in Documents}
Bodies == {<<>>} \cup Documents \cup Truncated

OnRequestError_NextAccept == "loop"

\* What an exception other than socket.timeout leads to once get_server_request
\* has re-raised it into server_listener, which has no handler.
OnRequestError == "crashed"

\* comm_socket is None (pull mode): sock.accept() raises AttributeError, which is
\* re-raised because it is no socket.timeout.
AcceptNone ==
    /\ UNCHANGED codecVars
    /\ lpc = "loop"
    /\ comm_state = "none"
    /\ lpc' = OnRequestError
    /\ failure' = "AttributeError"
    /\ UNCHANGED <<portVars, setupVars, argVars, rciVars, loopVars>>

\* sock.accept() times out after 5 s: get_server_request returns None and the
\* loop of server_listener comes round again.
AcceptTimeout ==
    /\ UNCHANGED codecVars
    /\ lpc = "loop"
    /\ comm_state = "listening"
    /\ conn' = "none"
    /\ data' = <<>>
    /\ request' = {}
    /\ kills' = <<>>
    /\ logged' = FALSE
    /\ UNCHANGED <<portVars, setupVars, argVars, lpc, failure, rciVars>>
    /\ UNCHANGED <<budget, incoming, shutdown, failedKills, nconn, openConns>>

\* sock.accept() returns a connection of the controller.
AcceptConn ==
    /\ UNCHANGED codecVars
    /\ lpc = "loop"
    /\ comm_state = "listening"
    /\ budget > 0
    /\ budget' = budget - 1
    /\ nconn' = nconn + 1
    /\ openConns' = openConns + 1
    /\ incoming' \in Bodies
    /\ conn' = "open"
    /\ data' = <<>>
    /\ request' = {}
    /\ kills' = <<>>
    /\ logged' = FALSE
    /\ lpc' = "recv"
    /\ UNCHANGED <<portVars, setupVars, argVars, failure, rciVars, shutdown, failedKills>>

\* conn.recv(1024) returns some of what the peer wrote; it is appended to data.
RecvData ==
    /\ UNCHANGED codecVars
    /\ lpc = "recv"
    /\ incoming # <<>>
    /\ \E k \in 1..Len(incoming) :
         /\ data' = data \o SubSeq(incoming, 1, k)
         /\ incoming' = SubSeq(incoming, k + 1, Len(incoming))
    /\ UNCHANGED <<portVars, setupVars, argVars, lpc, failure, rciVars>>
    /\ UNCHANGED <<budget, conn, request, shutdown, kills, failedKills, logged, nconn, openConns>>

FinallyClose_Skipped(c) == c

\* `finally: if conn: conn.close()`
FinallyClose(c) == IF c = "open" THEN "closed" ELSE c

\* conn.recv returns b'': json.loads(data) if anything was received, else None;
\* `finally: conn.close()`; the request is returned.
RecvEof ==
    /\ UNCHANGED codecVars
    /\ lpc = "recv"
    /\ incoming = <<>>
    /\ Len(data) > 0 => WellFormed(data)
    /\ request' = IF Len(data) > 0 THEN {JsonLoads(data)} ELSE {}
    /\ conn' = FinallyClose(conn)
    /\ openConns' = openConns - (IF FinallyClose(conn) # conn THEN 1 ELSE 0)
    /\ lpc' = "process"
    /\ UNCHANGED <<portVars, setupVars, argVars, failure, rciVars>>
    /\ UNCHANGED <<budget, incoming, data, shutdown, kills, failedKills, logged, nconn>>

\* conn.recv returns b'' and json.loads(data) raises: conn is closed by the finally
\* block and the error is re-raised.
RecvEofMalformed ==
    /\ UNCHANGED codecVars
    /\ lpc = "recv"
    /\ incoming = <<>>
    /\ Len(data) > 0
    /\ ~WellFormed(data)
    /\ conn' = FinallyClose(conn)
    /\ openConns' = openConns - (IF FinallyClose(conn) # conn THEN 1 ELSE 0)
    /\ lpc' = OnRequestError
    /\ failure' = "JSONDecodeError"
    /\ UNCHANGED <<portVars, setupVars, argVars, rciVars>>
    /\ UNCHANGED <<budget, incoming, data, request, shutdown, kills, failedKills, logged, nconn>>

\* conn.recv raises (the peer reset the connection): closed by finally, re-raised.
RecvError ==
    /\ UNCHANGED codecVars
    /\ lpc = "recv"
    /\ conn' = FinallyClose(conn)
    /\ openConns' = openConns - (IF FinallyClose(conn) # conn THEN 1 ELSE 0)
    /\ lpc' = OnRequestError
    /\ failure' = "ConnectionResetError"
    /\ UNCHANGED <<portVars, setupVars, argVars, rciVars>>
    /\ UNCHANGED <<budget, incoming, data, request, shutdown, kills, failedKills, logged, nconn>>

(* ---------------------------- server_listener -------------------------- *)
\* `if request:` - None and the empty dict are both false.
Truthy(req) == req # {} /\ DOMAIN The(req) # {}

\* request.get(name) is not None
Has(r, name) == name \in DOMAIN r

Signals_AlwaysSecondary(r, ct) ==
    IF Has(r, "signum")
    THEN <<r.signum>> \o (IF r.signum = SIGINT THEN <<SIGUSR2>> ELSE <<>>)
    ELSE <<>>

\* The signals os.kill is called with for one request, in order: the signum asked
\* for, then SIGUSR2 when that is 2 and cluster_type is "spark".
Signals(r, ct) ==
    IF Has(r, "signum")
    THEN <<r.signum>> \o (IF r.signum = SIGINT /\ ct = "spark" THEN <<SIGUSR2>> ELSE <<>>)
    ELSE <<>>

\* os.kill(parent_pid, signum): every call names parent_pid.
KillCalls(sigs) == [i \in 1..Len(sigs) |-> <<"parent_pid", sigs[i]>>]

\* `shutdown = bool(request.get("shutdown"))` when the field is there.
ShutdownAfter(r, before) == IF Has(r, "shutdown") THEN r.shutdown ELSE before

LogsRequest_DefaultZero(r) == (IF Has(r, "signum") THEN r.signum ELSE 0) # 0

\* `signum = -1`, replaced by the request's signum; logged unless it is 0.
LogsRequest(r) == (IF Has(r, "signum") THEN r.signum ELSE -1) # 0

\* `while not shutdown`
LoopTest(sd) == IF sd THEN "exit" ELSE "loop"

\* The body of the loop for a request that raises nothing.
ProcessRequest ==
    /\ UNCHANGED codecVars
    /\ lpc = "process"
    /\ IF Truthy(request)
       THEN LET r == The(request)
            IN  /\ Has(r, "signum") => parent_alive
                /\ kills' = KillCalls(Signals(r, cluster_type))
                /\ shutdown' = ShutdownAfter(r, shutdown)
                /\ logged' = LogsRequest(r)
       ELSE UNCHANGED <<kills, shutdown, logged>>
    /\ lpc' = LoopTest(shutdown')
    /\ UNCHANGED <<portVars, setupVars, argVars, failure, rciVars>>
    /\ UNCHANGED <<budget, conn, incoming, data, request, failedKills, nconn, openConns>>

\* os.kill(parent_pid, signum) raises ProcessLookupError: nothing in server_listener
\* catches it.
ProcessRequestKillFails ==
    /\ UNCHANGED codecVars
    /\ lpc = "process"
    /\ Truthy(request)
    /\ Has(The(request), "signum")
    /\ ~parent_alive
    /\ failedKills' = failedKills + 1
    /\ lpc' = OnRequestError
    /\ failure' = "ProcessLookupError"
    /\ UNCHANGED <<portVars, setupVars, argVars, rciVars>>
    /\ UNCHANGED <<budget, conn, incoming, data, request, shutdown, kills, logged, nconn, openConns>>

\* comm_socket is never closed by the code.  Once server_listener has returned,
\* nothing refers to it: it stays as it is until the runtime finalizes the object
\* or the process ends.
Unreferenced(st) == IF st = "none" THEN {st} ELSE {st, "closed"}

\* The loop has ended and server_listener returns.
ListenerReturn ==
    /\ UNCHANGED codecVars
    /\ lpc = "exit"
    /\ lpc' = "done"
    /\ comm_state' \in Unreferenced(comm_state)
    /\ UNCHANGED <<portVars, setupVars, argVars, failure, loopVars>>
    /\ UNCHANGED <<cf_json, comm_port, push, connects, sends, wire>>

(* ------------------------------ SpecPorts ------------------------------ *)
\* Either the unrestricted range (0, 0) or a restricted one with lower <= upper.
Ranges == {<<0, 0>>} \cup {r \in (1..RangeMax) \X (1..RangeMax) : r[1] <= r[2]}

\* Nothing has run yet outside the caller's execution context.
UnitIdle ==
    /\ file = {}
    /\ unit = "none"
    /\ lpc = "idle"
    /\ failure = ""
    /\ cf_json = {}
    /\ comm_port = 0
    /\ comm_state = "none"
    /\ push = "none"
    /\ connects = 0
    /\ sends = 0
    /\ wire = <<>>

\* No controller connection has been accepted yet.
LoopIdle ==
    /\ conn = "none"
    /\ incoming = <<>>
    /\ data = <<>>
    /\ request = {}
    /\ shutdown = FALSE
    /\ kills = <<>>
    /\ failedKills = 0
    /\ logged = FALSE
    /\ nconn = 0
    /\ openConns = 0

\* _encrypt is not being called on its own.
CodecIdle ==
    /\ cpc = "idle"
    /\ plaintext = <<>>
    /\ keypair = 0
    /\ aes_key = <<>>
    /\ envelope = <<>>
    /\ recovered = <<>>

InitPorts ==
    /\ count \in 1..MaxCount
    /\ \E r \in Ranges : lower_port = r[1] /\ upper_port = r[2]
    /\ elsewhere \in SUBSET (1..RangeMax)
    /\ pc = "select_ports"
    /\ ports = <<>>
    /\ sockets = <<>>
    /\ probes = {}
    /\ retries = 0
    /\ response_addr = <<>>
    /\ cluster_type = "none"
    /\ parent_alive = TRUE
    /\ budget = 0
    /\ UnitIdle
    /\ LoopIdle
    /\ CodecIdle

NextPorts ==
    \/ SelectPortsBindOk
    \/ SelectPortsBindFail
    \/ SelectPortsReturn

SpecPorts == InitPorts /\ [][NextPorts]_vars

(* ------------------------------ SpecSetup ------------------------------ *)
\* setup_server_listener as an external caller runs it, with no other process
\* taking ports meanwhile and a controller that sends no request.
SetupRanges == {<<0, 0>>} \cup {r \in Ports \X Ports : r[1] <= r[2]}
SetupAddrs == {<<"h", ":", "8">>, <<"h">>, <<"h", ":", "h">>, <<"h", ":", "8", ":", "8">>}

InitSetup ==
    /\ count = MsgPortCount
    /\ \E r \in SetupRanges : lower_port = r[1] /\ upper_port = r[2]
    /\ elsewhere = {}
    /\ pc = "select_ports"
    /\ ports = <<>>
    /\ sockets = <<>>
    /\ probes = {}
    /\ retries = 0
    /\ response_addr \in SetupAddrs
    /\ cluster_type = "none"
    /\ parent_alive = TRUE
    /\ budget = 0
    /\ UnitIdle
    /\ LoopIdle
    /\ CodecIdle

\* With no port held by anyone when prepare_comm_socket runs, its bind cannot fail.
NextSetup ==
    \/ SelectPortsBindOk
    \/ SelectPortsBindFail
    \/ SelectPortsReturn
    \/ WriteConnectionFile
    \/ StartListener
    \/ SetupReturn
    \/ RciParse
    \/ CommBindOk
    \/ PushConnectOk
    \/ PushConnectFail
    \/ PushSendOk
    \/ PushSendFail
    \/ AcceptNone
    \/ AcceptTimeout

SpecSetup == InitSetup /\ [][NextSetup]_vars

(* ------------------------------- SpecPush ------------------------------ *)
\* server_listener from its first line to its first accept, for every address of
\* up to MaxAddrLen characters.  The connection file holds five ports chosen
\* earlier; since then other processes may have bound any ports.
AddrChars == {"h", ":", "8"}
Addrs == UNION {[1..k -> AddrChars] : k \in 0..MaxAddrLen}

InitPush ==
    /\ count = MsgPortCount
    /\ \E r \in Ranges : lower_port = r[1] /\ upper_port = r[2]
    /\ elsewhere \in SUBSET (1..RangeMax)
    /\ pc = "started"
    /\ ports = <<1, 2, 3, 4, 5>>
    /\ sockets = ports
    /\ probes = {}
    /\ retries = 0
    /\ file = {ConnectionFile(ports, "uuid4")}
    /\ unit \in {"thread", "process"}
    /\ response_addr \in Addrs
    /\ cluster_type = "none"
    /\ parent_alive = TRUE
    /\ lpc = "rci"
    /\ failure = ""
    /\ cf_json = {}
    /\ comm_port = 0
    /\ comm_state = "none"
    /\ push = "none"
    /\ connects = 0
    /\ sends = 0
    /\ wire = <<>>
    /\ budget = 0
    /\ LoopIdle
    /\ CodecIdle

NextPush ==
    \/ SetupReturn
    \/ RciParse
    \/ CommBindOk
    \/ CommBindFail
    \/ PushConnectOk
    \/ PushConnectFail
    \/ PushSendOk
    \/ PushSendFail
    \/ AcceptNone
    \/ AcceptTimeout

SpecPush == InitPush /\ [][NextPush]_vars

(* ----------------------------- SpecListener ---------------------------- *)
\* server_listener either from its entry with a response address that is no
\* host:port (pull mode), or from the return of return_connection_info with a
\* listening comm_sock whose descriptor has been pushed.
PushedDescriptor(p) == WithCommPort(WithProcessIds(ConnectionFile(<<1, 2, 3, 4, 5>>, "uuid4"), "thread"), p)

InitListener ==
    /\ count = MsgPortCount
    /\ lower_port = 0
    /\ upper_port = 0
    /\ elsewhere = {}
    /\ pc = "returned"
    /\ ports = <<1, 2, 3, 4, 5>>
    /\ sockets = ports
    /\ probes = {}
    /\ retries = 0
    /\ file = {ConnectionFile(ports, "uuid4")}
    /\ unit = "thread"
    /\ cluster_type \in {"none", "spark"}
    /\ parent_alive \in BOOLEAN
    /\ failure = ""
    /\ \/ /\ response_addr \in {<<"h">>, <<"h", ":", "h">>}
          /\ lpc = "rci"
          /\ cf_json = {}
          /\ comm_port = 0
          /\ comm_state = "none"
          /\ push = "none"
          /\ connects = 0
          /\ sends = 0
          /\ wire = <<>>
       \/ /\ response_addr = <<"h", ":", "8">>
          /\ lpc = "loop"
          /\ comm_port \in Ports
          /\ cf_json = {PushedDescriptor(comm_port)}
          /\ comm_state = "listening"
          /\ push = "closed"
          /\ connects = 1
          /\ sends = 1
          /\ wire = <<[payload |-> Envelope(PushedDescriptor(comm_port)), whole |-> TRUE]>>
    /\ budget = MaxConns
    /\ LoopIdle
    /\ CodecIdle

NextListener ==
    \/ RciParse
    \/ AcceptNone
    \/ AcceptTimeout
    \/ AcceptConn
    \/ RecvData
    \/ RecvEof
    \/ RecvEofMalformed
    \/ RecvError
    \/ ProcessRequest
    \/ ProcessRequestKillFails
    \/ ListenerReturn

SpecListener == InitListener /\ [][NextListener]_vars

(* ------------------------------ SpecCodec ------------------------------ *)
\* _encrypt on its own: plaintexts of every length up to MaxPlainLen, which
\* reaches past one block, ending in a byte that is also a legal padding byte.
PlainBytes == {1, 16, 123}
Plaintexts ==
    {[i \in 1..n |-> IF i = n THEN c ELSE f] :
        n \in 0..MaxPlainLen, c \in PlainBytes, f \in PlainBytes}

InitCodec ==
    /\ count = 0
    /\ lower_port = 0
    /\ upper_port = 0
    /\ elsewhere = {}
    /\ pc = "idle"
    /\ ports = <<>>
    /\ sockets = <<>>
    /\ probes = {}
    /\ retries = 0
    /\ response_addr = <<>>
    /\ cluster_type = "none"
    /\ parent_alive = TRUE
    /\ budget = 0
    /\ UnitIdle
    /\ LoopIdle
    /\ cpc = "call"
    /\ plaintext \in Plaintexts
    /\ keypair \in 1..NumKeyPairs
    /\ aes_key = <<>>
    /\ envelope = <<>>
    /\ recovered = <<>>

NextCodec ==
    \/ EncryptCall
    \/ OpenEnvelope

SpecCodec == InitCodec /\ [][NextCodec]_vars

\* C11: opening the envelope _encrypt returned, with the private key matching
\* the public key passed in, gives back exactly the plaintext, whether it is
\* shorter than, as long as or longer than one cipher block; the envelope
\* carries version 1 and wraps the key drawn in that call.
C11_RoundTrip ==
    cpc = "opened" =>
        /\ recovered.conn_info = plaintext
        /\ recovered.version = 1
        /\ recovered.key = aes_key
        /\ Len(aes_key) = AesKeyLen

C11_Witness ==
    /\ cpc = "opened"
    /\ Len(plaintext) = BlockSize
    /\ plaintext[BlockSize] = 1
    /\ recovered.conn_info = plaintext

(* ------------------------- claims on SpecPorts ------------------------- *)
Restricted == lower_port # 0 /\ lower_port <= upper_port
Distinct(s) == \A i, j \in 1..Len(s) : i # j => s[i] # s[j]

\* C1: for every restricted range with lower <= upper (a range of size 1 included)
\* and every count <= upper-lower+1, a _select_ports call that returns has produced
\* exactly count pairwise distinct ports, each within [lower, upper].
C1_PortsDistinctInRange ==
    (pc = "ports_returned" /\ Restricted /\ count <= upper_port - lower_port + 1)
        => /\ Len(ports) = count
           /\ Distinct(ports)
           /\ \A i \in 1..Len(ports) : ports[i] \in lower_port..upper_port

\* Every port of the restricted range is held by another process.
Exhausted == Restricted /\ (lower_port..upper_port) \subseteq elsewhere

\* C2: with every port of a restricted range bound elsewhere, selection never yields
\* a port and raises after exactly max_port_range_retries+1 failed binds.
C2_ExhaustedRangeFails ==
    Exhausted
        => /\ ports = <<>>
           /\ pc # "ports_returned"
           /\ retries <= max_port_range_retries + 1
           /\ (pc = "raised") = (retries = max_port_range_retries + 1)

(* ------------------------ claims on SpecListener ----------------------- *)
\* The request the loop body has finished with (none while one is being read).
Handled == lpc \in {"loop", "exit", "done"} /\ Truthy(request)

\* C3: once a request with shutdown true has been processed no further accept is
\* made, and once the loop has ended the listening control socket is released.
C3_ShutdownReleasesSocket ==
    /\ (Handled /\ Has(The(request), "shutdown") /\ The(request).shutdown)
          => lpc \in {"exit", "done"}
    /\ lpc = "done" => comm_state = "closed"

\* C4: a signal delivery that fails because parent_pid names no process is reported
\* and leaves the listener in its accept loop, ready for later requests.
C4_SignalFailureKeepsListening ==
    failedKills > 0 => (lpc # "crashed" /\ failure = "")

\* C5: a body that is not valid JSON does not end the control listener.
C5_MalformedRequestKeepsListening ==
    ~(lpc = "crashed" /\ failure = "JSONDecodeError")

\* C6: a request with signum 2 makes two os.kill calls (2, then SIGUSR2) under
\* cluster_type "spark" and one call (2) otherwise; any other signum makes one call;
\* a request without signum makes none; every call names parent_pid.
C6_SignalDeliveries ==
    Handled =>
        LET r == The(request)
        IN  IF "signum" \notin DOMAIN r THEN kills = <<>>
            ELSE IF r.signum = 2 /\ cluster_type = "spark"
                 THEN kills = << <<"parent_pid", 2>>, <<"parent_pid", SIGUSR2>> >>
                 ELSE kills = << <<"parent_pid", r.signum>> >>

C6_Witness ==
    /\ Handled
    /\ cluster_type = "spark"
    /\ "signum" \in DOMAIN The(request)
    /\ The(request).signum = 2
    /\ Len(kills) = 2

\* C8: the accept loop ends only after a request with shutdown true; timeouts,
\* empty connections, polls, signal requests and shutdown false never end it.
C8_LoopEndsOnlyOnShutdown ==
    (lpc \in {"exit", "done", "crashed"}
        /\ failure \notin {"AttributeError", "JSONDecodeError", "ConnectionResetError"})
        => (shutdown /\ Truthy(request) /\ Has(The(request), "shutdown"))

(* -------------------------- claims on SpecPush ------------------------- *)
Colons(addr) == {i \in 1..Len(addr) : addr[i] = ":"}

\* The address is host:port with a port made of digits only.
HostAndNumericPort(addr) ==
    /\ Cardinality(Colons(addr)) = 1
    /\ LET c == The(Colons(addr))
       IN  c < Len(addr) /\ \A i \in (c + 1)..Len(addr) : addr[i] = "8"

\* C7: an address that is not host:port, or whose port is not numeric, makes
\* return_connection_info return (None) without raising, connecting or sending.
C7_MalformedAddressPullMode ==
    (~HostAndNumericPort(response_addr) /\ lpc # "rci")
        => /\ lpc \in {"loop", "crashed"}
           /\ failure \in {"", "AttributeError"}
           /\ connects = 0
           /\ sends = 0
           /\ push = "none"
           /\ wire = <<>>
           /\ comm_state = "none"

C7_Witness ==
    /\ response_addr = <<"h", ":", "h">>
    /\ lpc = "loop"
    /\ connects = 0

(* ------------------------- claims on SpecSetup ------------------------- *)
PushFailed == failure \in {"connect", "send"}

Added == {"pid", "pgid", "comm_port", "kernel_id"}

\* C10 as claimed: after the push the connection file holds the augmented
\* descriptor, equal to the one pushed.
C10_FileIsAugmented ==
    wire # <<>>
        => \A d \in file : Added \subseteq DOMAIN d /\ d = wire[1].payload.conn_info

\* C10 as amended: the file holds the five ports and the key without the added
\* fields; the pushed descriptor is the file's plus exactly pid, pgid, comm_port
\* and kernel_id.
C10_PushedIsFilePlusAdded ==
    wire # <<>>
        => /\ file # {}
           /\ LET d == The(file)
                  sent == wire[1].payload.conn_info
              IN  /\ DOMAIN d = {"ip", "key", "shell_port", "iopub_port", "stdin_port",
                                 "hb_port", "control_port"}
                  /\ DOMAIN sent = DOMAIN d \cup Added
                  /\ \A f \in DOMAIN d : sent[f] = d[f]
                  /\ <<d.shell_port, d.iopub_port, d.stdin_port, d.hb_port, d.control_port>> = ports
                  /\ sent.comm_port = comm_port
                  /\ sent.kernel_id = "kernel_id"
                  /\ sent.pid = (IF unit = "thread" THEN "pid_caller" ELSE "pid_child")

C10_Witness ==
    /\ wire # <<>>
    /\ file # {}
    /\ "comm_port" \notin DOMAIN The(file)
    /\ wire[1].payload.conn_info.comm_port = comm_port

\* C12 as claimed: with a well-formed response address, setup_server_listener
\* has not returned, and the unit is not at its accept loop, until the push has
\* finished or failed.
C12_PushBeforeReturn ==
    ((pc = "returned" \/ lpc = "loop") /\ ~PullMode(response_addr))
        => (wire # <<>> \/ PushFailed)

\* C12 as amended: the ports are allocated, the probes closed and the connection
\* file written before the unit starts; the unit reaches its accept loop only
\* after the one push has been written and its connection closed (or, in pull
\* mode, with no push at all); setup_server_listener returns without waiting.
C12_PushBeforeAccept ==
    /\ lpc # "idle"
        => /\ pc \in {"started", "returned"}
           /\ Len(ports) = MsgPortCount
           /\ probes = {}
           /\ file # {}
    /\ lpc = "loop"
        => \/ PullMode(response_addr) /\ wire = <<>> /\ connects = 0
           \/ /\ ~PullMode(response_addr)
              /\ Len(wire) = 1
              /\ sends = 1
              /\ push = "closed"
              /\ failure = ""

C12_Witness ==
    /\ lpc = "loop"
    /\ Len(wire) = 1
    /\ pc = "started"

\* C13: whenever the unit is connecting or sending, and once the descriptor is on
\* the wire, the control socket is bound and listening on the comm_port that
\* cf_json and the pushed descriptor carry; it is still that socket, listening
\* on that port, when the unit is at its accept loop.
C13_ListeningBeforePush ==
    (lpc \in {"connect", "send"} \/ push # "none" \/ wire # <<>>)
        => /\ comm_state = "listening"
           /\ comm_port \in Ports
           /\ \A d \in cf_json : d.comm_port = comm_port
           /\ \A i \in 1..Len(wire) : wire[i].payload.conn_info.comm_port = comm_port

C13_Witness ==
    /\ lpc = "loop"
    /\ Len(wire) = 1
    /\ comm_state = "listening"
    /\ wire[1].payload.conn_info.comm_port = comm_port
    /\ pc = "returned"

\* C14: once the push connection is closed after a send that did not raise, the
\* whole payload is on the wire, never only a prefix of it.
C14_WholePayloadWritten ==
    (push = "closed" /\ failure = "")
        => \A i \in 1..Len(wire) : wire[i].whole

\* C16: no socket stays open on an exit path: no probing socket once _select_ports
\* has raised or returned, and neither the control socket nor the push
\* connection once the connect or the send has failed.
C16_SocketsReleased ==
    /\ pc # "select_ports" => probes = {}
    /\ PushFailed => (comm_state # "listening" /\ push # "connected")

\* C19: the control socket's port differs from each of the five messaging ports.
C19_SixPortsDistinct ==
    comm_state = "listening"
        => \A i \in 1..Len(ports) : ports[i] # comm_port

(* --------------------- further claims on SpecListener ------------------ *)
\* A request get_server_request returned, once the loop body is through with it.
Processed == lpc \in {"loop", "exit", "done"} /\ request # {}

\* C15: a request never both delivers a signal and asks the loop to shut down; one
\* with shutdown true delivers no signal.
C15_SignalOrShutdown ==
    Handled =>
        LET r == The(request)
        IN  (Has(r, "shutdown") /\ r.shutdown)
                => \A i \in 1..Len(kills) : kills[i][2] = 0

\* C17: no accepted connection is open once get_server_request is over, whether
\* it returned a request, returned None or raised, and at most one accepted
\* connection is open at any time.
C17_ConnectionsClosed ==
    /\ openConns <= 1
    /\ (conn = "open") = (openConns = 1)
    /\ lpc # "recv" => (openConns = 0 /\ conn # "open")

C17_Witness ==
    /\ lpc = "crashed"
    /\ failure = "JSONDecodeError"
    /\ nconn = 2
    /\ conn = "closed"
    /\ openConns = 0

\* C18 as claimed: a request with neither signum nor shutdown delivers no signal
\* and is not logged; every request with signum or shutdown is logged.
C18_OnlyPollsUnlogged ==
    Processed =>
        LET r == The(request)
        IN  IF Has(r, "signum") \/ Has(r, "shutdown")
            THEN logged
            ELSE ~logged /\ kills = <<>>

\* C18 as amended: a request is logged unless it is empty or its signum is 0; one
\* with signum 0 makes the one os.kill(parent_pid, 0) call and is not logged; one
\* without signum makes no os.kill call.
C18_LoggedUnlessSignumZero ==
    Processed =>
        LET r == The(request)
        IN  /\ logged = (DOMAIN r # {} /\ ~(Has(r, "signum") /\ r.signum = 0))
            /\ (Has(r, "signum") /\ r.signum = 0)
                    => kills = << <<"parent_pid", 0>> >>
            /\ ~Has(r, "signum") => kills = <<>>

C18_Witness ==
    /\ Processed
    /\ Has(The(request), "signum")
    /\ The(request).signum = 0
    /\ ~logged
    /\ Len(kills) = 1

\* C20: with a response address that is no host:port, no socket is made and no
\* port bound, nothing is sent, no connection is accepted and no signal is
\* delivered; the unit ends at its first accept, on the AttributeError, with no
\* shutdown request received.
C20_PullModeEndsAtFirstAccept ==
    ~HostAndNumericPort(response_addr)
        => /\ comm_state = "none"
           /\ comm_port = 0
           /\ wire = <<>>
           /\ connects = 0
           /\ nconn = 0
           /\ conn = "none"
           /\ request = {}
           /\ kills = <<>>
           /\ failedKills = 0
           /\ ~shutdown
           /\ lpc \in {"rci", "loop", "crashed"}
           /\ failure = (IF lpc = "crashed" THEN "AttributeError" ELSE "")

C20_Witness ==
    /\ response_addr = <<"h", ":", "h">>
    /\ lpc = "crashed"
    /\ failure = "AttributeError"
    /\ budget = MaxConns
    /\ comm_state = "none"

=============================================================================
